---- MODULE Spec2Model ----
(***************************************************************************)
(* Headshot generator: the crop-and-fit core of HeadshotProcessor          *)
(* (src/src/headshot_generator/processing/headshot_processor.py) and the   *)
(* ImageData record it updates.                                            *)
(*                                                                         *)
(* Images are modelled by their size <<width, height>>; a missing value    *)
(* (Python None) of a tuple-valued field is the empty tuple <<>>.          *)
(* Python floats are modelled as exact rationals <<numerator, denominator>>*)
(* with a positive denominator; the inputs are drawn from values whose     *)
(* IEEE-754 arithmetic is exact (halves and quarters), so int(a * b) is    *)
(* the truncation of the exact product.                                    *)
(***************************************************************************)
EXTENDS Integers, Sequences, FiniteSets, TLC

VARIABLES
    pc,                 \* position inside process_image / the unit call
    image_data,         \* the ImageData object handed to process_image
    processing_params,  \* the processing_params dictionary handed to process_image
    faces,              \* result of _detect_faces: sequence of <<x, y, w, h>>
    crop,               \* the crop computation: branch, raw box, constrained box, final box
    cropped,            \* size of the image object `cropped` (returned by image.crop)
    padded,             \* size of the image returned by ImageOps.expand in _finalize_image
    final_image,        \* size of the image `final_image`
    pixel,              \* channel values of one pixel, any one, of `final_image`
    detector,           \* detectMultiScale: "idle", "ok" (returned) or "failed" (raised)
    session,            \* the SessionState object; in the CAPTCHA runs st.session_state
    raised,             \* exception that left process_image / the unit call ("none": none)
    entry_image_data,   \* image_data as it was when process_image was entered
    call,               \* unit call of a pure function: [op, args]
    ret                 \* its return value

vars == <<pc, image_data, processing_params, faces, crop, cropped, padded,
          final_image, pixel, detector, session, raised, entry_image_data, call, ret>>

None == <<>>

(***************************************************************************)
(* Python arithmetic                                                       *)
(***************************************************************************)
Min(a, b) == IF a <= b THEN a ELSE b

Max(a, b) == IF a >= b THEN a ELSE b

Abs(a) == IF a >= 0 THEN a ELSE -a

\* int(n / d) for d > 0: Python's int() truncates toward zero.
Trunc(n, d) == IF n >= 0 THEN n \div d ELSE -((-n) \div d)

\* math.ceil(n / d) for d > 0
Ceil(n, d) == -((-n) \div d)

\* a <= b for rationals <<n, d>>
RatLeq(a, b) == a[1] * b[2] <= b[1] * a[2]

(***************************************************************************)
(* HeadshotProcessor._constrain_crop_bounds                                *)
(***************************************************************************)
\* Mutant: a naive clamp that does not shift the opposite edge.
constrain_crop_bounds_naive(left, top, right, bottom, img_width, img_height) ==
    <<Max(0, left), Max(0, top), Min(img_width, right), Min(img_height, bottom)>>

\* Mutant: the right/bottom correction forgets to pull left/top back.
constrain_crop_bounds_nopull(left, top, right, bottom, img_width, img_height) ==
    LET l1 == IF left < 0 THEN 0 ELSE left
        r1 == IF left < 0 THEN right - left ELSE right
        t1 == IF top < 0 THEN 0 ELSE top
        b1 == IF top < 0 THEN bottom - top ELSE bottom
    IN  <<l1, t1, Min(img_width, r1), Min(img_height, b1)>>

constrain_crop_bounds(left, top, right, bottom, img_width, img_height) ==
    LET \* if left < 0: right -= left; left = 0
        l1 == IF left < 0 THEN 0 ELSE left
        r1 == IF left < 0 THEN right - left ELSE right
        \* if top < 0: bottom -= top; top = 0
        t1 == IF top < 0 THEN 0 ELSE top
        b1 == IF top < 0 THEN bottom - top ELSE bottom
        \* if right > img_width: left -= (right - img_width); right = img_width
        l2 == IF r1 > img_width THEN l1 - (r1 - img_width) ELSE l1
        r2 == IF r1 > img_width THEN img_width ELSE r1
        \* if bottom > img_height: top -= (bottom - img_height); bottom = img_height
        t2 == IF b1 > img_height THEN t1 - (b1 - img_height) ELSE t1
        b2 == IF b1 > img_height THEN img_height ELSE b1
    IN  \* final bounds check
        <<Max(0, l2), Max(0, t2), Min(img_width, r2), Min(img_height, b2)>>

(***************************************************************************)
(* HeadshotProcessor._center_crop                                          *)
(***************************************************************************)
\* round(n / d) for n >= 0 and d > 0: Python rounds a half to the even integer.
Round(n, d) ==
    LET q == n \div d
        r == n % d
    IN  IF 2 * r < d THEN q
        ELSE IF 2 * r > d THEN q + 1
        ELSE IF q % 2 = 0 THEN q ELSE q + 1

\* Mutant: the base crop dimensions are rounded to the nearest integer.
\* The n up to 1200 whose double product n * 0.7 lies below the integer
\* n * 7 / 10, so that int() gives one less: int(180 * 0.7) = 125.
\* For the other target ratios of the runs (0.8, 1.0, 5.0) there is no
\* such n, and int(n / target_ratio) and the comparison with target_ratio
\* agree with the exact values for all of them.
ShortProducts ==
    {90, 170, 180, 330, 340, 350, 360, 650, 660, 670, 680, 690, 700, 710, 720, 730}

\* int(n * target_ratio) with target_ratio = target_size[0] / target_size[1]
\* a double (lines 222, 225, 283, 292).
times_target_ratio(n, target_size) ==
    LET exact == Trunc(n * target_size[1], target_size[2])
    IN  IF target_size[1] * 10 = target_size[2] * 7 /\ n \in ShortProducts
        THEN exact - 1
        ELSE exact

center_crop_base_rounded(size, target_size) ==
    <<Min(size[1], Round(size[2] * target_size[1], target_size[2])),
      Min(size[2], Round(size[1] * target_size[2], target_size[1]))>>

\* Lines 221-226: <<base_crop_width, base_crop_height>>.
\* size = image.size, target_size = (target_width, target_height);
\* target_ratio = target_size[0] / target_size[1].
center_crop_base(size, target_size) ==
    LET width  == size[1]
        height == size[2]
    IN  <<Min(width, times_target_ratio(height, target_size)),
          Min(height, Trunc(width * target_size[2], target_size[1]))>>

\* Lines 221-236: the box before _constrain_crop_bounds.
\* zoom_out_factor is a rational.
center_crop_raw(size, target_size, zoom_out_factor, shift_x, shift_y) ==
    LET width  == size[1]
        height == size[2]
        base_crop_width  == center_crop_base(size, target_size)[1]
        base_crop_height == center_crop_base(size, target_size)[2]
        crop_width  == Trunc(base_crop_width * zoom_out_factor[1], zoom_out_factor[2])
        crop_height == Trunc(base_crop_height * zoom_out_factor[1], zoom_out_factor[2])
        crop_left == ((width - crop_width) \div 2) + shift_x
        crop_top  == ((height - crop_height) \div 2) + shift_y
    IN  <<crop_left, crop_top, crop_left + crop_width, crop_top + crop_height>>

\* Mutant: the horizontal shift is dropped.
center_crop_noshift(size, target_size, zoom_out_factor, shift_x, shift_y) ==
    LET raw == center_crop_raw(size, target_size, zoom_out_factor, 0, shift_y)
    IN  constrain_crop_bounds(raw[1], raw[2], raw[3], raw[4], size[1], size[2])

\* Mutant: the box is not centred on the image: it starts at the shifts.
center_crop_uncentred(size, target_size, zoom_out_factor, shift_x, shift_y) ==
    LET raw == center_crop_raw(size, target_size, zoom_out_factor, shift_x, shift_y)
    IN  constrain_crop_bounds(shift_x, shift_y, shift_x + (raw[3] - raw[1]),
                              shift_y + (raw[4] - raw[2]), size[1], size[2])

\* The box handed to image.crop.
center_crop(size, target_size, zoom_out_factor, shift_x, shift_y) ==
    LET raw == center_crop_raw(size, target_size, zoom_out_factor, shift_x, shift_y)
    IN  constrain_crop_bounds(raw[1], raw[2], raw[3], raw[4], size[1], size[2])

(***************************************************************************)
(* HeadshotProcessor._face_crop                                            *)
(***************************************************************************)
\* Lines 259-262: <<padding_top, padding_bottom, padding_side>> in pixels.
\* padding_ratios = [top, bottom, side], each a rational.
face_paddings(face, padding_ratios) ==
    LET w == face[3]
        h == face[4]
    IN  <<Trunc(h * padding_ratios.top[1], padding_ratios.top[2]),
          Trunc(h * padding_ratios.bottom[1], padding_ratios.bottom[2]),
          Trunc(w * padding_ratios.side[1], padding_ratios.side[2])>>

\* Lines 257-272: the box centred on the face, before _constrain_crop_bounds.
face_crop_raw(face, padding_ratios, zoom_out_factor, shift_x, shift_y) ==
    LET x == face[1]
        y == face[2]
        w == face[3]
        h == face[4]
        padding_top    == face_paddings(face, padding_ratios)[1]
        padding_bottom == face_paddings(face, padding_ratios)[2]
        padding_side   == face_paddings(face, padding_ratios)[3]
        crop_width  == Trunc((w + 2 * padding_side) * zoom_out_factor[1],
                             zoom_out_factor[2])
        crop_height == Trunc((h + padding_top + padding_bottom) * zoom_out_factor[1],
                             zoom_out_factor[2])
        crop_left == x + (w \div 2) - (crop_width \div 2) + shift_x
        crop_top  == y + (h \div 2) - (crop_height \div 2) + shift_y
    IN  <<crop_left, crop_top, crop_left + crop_width, crop_top + crop_height>>

\* Lines 274-278: the raw box constrained to the image.
face_crop_constrained(size, face, padding_ratios, zoom_out_factor, shift_x, shift_y) ==
    LET raw == face_crop_raw(face, padding_ratios, zoom_out_factor, shift_x, shift_y)
    IN  constrain_crop_bounds(raw[1], raw[2], raw[3], raw[4], size[1], size[2])

\* Lines 280-294: aspect correction of a constrained box b.
\* crop_width / crop_height raises ZeroDivisionError when crop_height = 0:
\* the result is then None.
aspect_correct(b, size, target_size) ==
    LET img_width   == size[1]
        img_height  == size[2]
        crop_width  == b[3] - b[1]
        crop_height == b[4] - b[2]
        \* crop_width / crop_height > target_ratio
        too_wide == IF crop_height > 0
                    THEN crop_width * target_size[2] > target_size[1] * crop_height
                    ELSE crop_width * target_size[2] < target_size[1] * crop_height
        new_height == Trunc(crop_width * target_size[2], target_size[1])
        top_h      == Max(0, b[2] - ((new_height - crop_height) \div 2))
        new_width  == times_target_ratio(crop_height, target_size)
        left_w     == Max(0, b[1] - ((new_width - crop_width) \div 2))
    IN  IF crop_height = 0 THEN None
        ELSE IF too_wide
             THEN <<b[1], top_h, b[3], Min(img_height, top_h + new_height)>>
             ELSE <<left_w, b[2], Min(img_width, left_w + new_width), b[4]>>

\* Mutant: the aspect correction is left out.
face_crop_uncorrected(size, face, padding_ratios, target_size, zoom_out_factor, shift_x, shift_y) ==
    face_crop_constrained(size, face, padding_ratios, zoom_out_factor, shift_x, shift_y)

\* The box handed to image.crop (None: ZeroDivisionError).
face_crop(size, face, padding_ratios, target_size, zoom_out_factor, shift_x, shift_y) ==
    aspect_correct(
        face_crop_constrained(size, face, padding_ratios, zoom_out_factor, shift_x, shift_y),
        size, target_size)

(***************************************************************************)
(* Pillow operations used by _center_crop, _face_crop and _finalize_image, *)
(* on image sizes.  An outcome is [raises, size]: raises = "none" and the  *)
(* size of the image returned, or the exception raised and size = None.    *)
(***************************************************************************)
Returns(size) == [raises |-> "none", size |-> size]

Raises(exc) == [raises |-> exc, size |-> None]

\* Image.crop(box): the result has the size of the box; a box whose right is
\* less than its left (or lower less than upper) raises ValueError.
pil_crop(box) ==
    IF box[3] < box[1] \/ box[4] < box[2]
    THEN Raises("ValueError")
    ELSE Returns(<<box[3] - box[1], box[4] - box[2]>>)

\* round_aspect of Image.thumbnail for the width:
\* max(min(floor(n), ceil(n), key = |aspect - n / y|), 1) with n = y * w / h.
\* When both keys are equal as rationals, the rounding of the float
\* subtraction decides: either candidate can be the result.
round_aspect_x(w, h, y) ==
    LET f  == (y * w) \div h
        c  == Ceil(y * w, h)
        kf == Abs(w * y - f * h)
        kc == Abs(w * y - c * h)
        picks == IF kc < kf THEN {c} ELSE IF kf < kc THEN {f} ELSE {f, c}
    IN  { Max(n, 1) : n \in picks }

\* round_aspect of Image.thumbnail for the height:
\* key = 0 if n == 0 else |aspect - x / n|, with n = x * h / w.
round_aspect_y(w, h, x) ==
    LET f  == (x * h) \div w
        c  == Ceil(x * h, w)
        kf == Abs(w * f - x * h) * c
        kc == Abs(w * c - x * h) * f
        picks == IF f = 0 THEN {f}
                 ELSE IF kc < kf THEN {c} ELSE IF kf < kc THEN {f} ELSE {f, c}
    IN  { Max(n, 1) : n \in picks }

\* Image.thumbnail(target_size): the sizes the image can be reduced to in
\* place.  aspect = width / height raises ZeroDivisionError for height 0.
thumbnail_size(size, target_size) ==
    LET w == size[1]
        h == size[2]
        x == target_size[1]
        y == target_size[2]
    IN  IF x >= w /\ y >= h THEN {Returns(size)}
        ELSE IF h = 0 THEN {Raises("ZeroDivisionError")}
        ELSE IF x * h >= w * y
             THEN { Returns(<<nx, y>>) : nx \in round_aspect_x(w, h, y) }
             ELSE { Returns(<<x, ny>>) : ny \in round_aspect_y(w, h, x) }

\* Image.resize(new_size) of an image of size `size`: an image without pixels
\* (a zero width or height) is resampled by the library with an outcome this
\* model leaves open: the resized image or an exception.
pil_resize(size, new_size) ==
    IF size = new_size \/ (size[1] > 0 /\ size[2] > 0)
    THEN {Returns(new_size)}
    ELSE {Returns(new_size), Raises("ValueError")}

\* ImageOps.expand(image, border = (bx, by)): bx pixels left and right,
\* by pixels above and below.
expand_size(size, border) == <<size[1] + 2 * border[1], size[2] + 2 * border[2]>>

(***************************************************************************)
(* HeadshotProcessor._finalize_image                                       *)
(***************************************************************************)
\* Line 334, cropped.thumbnail(target_size): the outcomes of the reduction in
\* place; size is the size of `cropped` afterwards.
thumbnail(size, target_size) ==
    UNION { IF th.raises # "none" \/ th.size = size
            THEN {th}
            ELSE pil_resize(size, th.size)
            : th \in thumbnail_size(size, target_size) }

\* Lines 333-344: thumbnail, then the border: the set of outcomes.  size is
\* the size of the image ImageOps.expand returns, cropped the size of the
\* image object `cropped` afterwards.
finalize_padded(cropped_size, target_size) ==
    { IF t.raises # "none"
      THEN [raises |-> t.raises, size |-> None, cropped |-> cropped_size]
      ELSE [raises |-> "none",
            size |-> expand_size(t.size,
                        <<(target_size[1] - t.size[1]) \div 2,
                          (target_size[2] - t.size[2]) \div 2>>),
            cropped |-> t.size]
      : t \in thumbnail(cropped_size, target_size) }

\* Mutant: the final resize to target_size is left out.
finalize_image_noresize(cropped_size, target_size) ==
    { [raises |-> p.raises, size |-> p.size, padded |-> p.size, cropped |-> p.cropped]
      : p \in finalize_padded(cropped_size, target_size) }

\* The set of outcomes of _finalize_image(cropped, target_size, border_color):
\* size is the size of the image returned, padded the size of the image
\* before the last resize, cropped the size of the argument afterwards.
finalize_image(cropped_size, target_size) ==
    UNION { IF p.raises # "none"
            THEN {[raises |-> p.raises, size |-> None, padded |-> None,
                   cropped |-> p.cropped]}
            ELSE {[raises |-> r.raises, size |-> r.size, padded |-> p.size,
                   cropped |-> p.cropped] : r \in pil_resize(p.size, target_size)}
            : p \in finalize_padded(cropped_size, target_size) }

(***************************************************************************)
(* HeadshotProcessor._convert_to_grayscale, on one pixel <<R, G, B>>       *)
(***************************************************************************)
\* ImageOps.grayscale(image) is image.convert("L"): the ITU-R 601-2 luma
\* L = (R * 19595 + G * 38470 + B * 7471 + 0x8000) >> 16.
\* Mutant: the weights 0.299, 0.587, 0.114 cut down to 16 bits, and no
\* rounding term.
luma_truncated(px) == (px[1] * 19595 + px[2] * 38469 + px[3] * 7471) \div 65536

luma(px) == (px[1] * 19595 + px[2] * 38470 + px[3] * 7471 + 32768) \div 65536

\* gray_img.convert("RGB"): the luminance in each of the three channels.
convert_to_grayscale(px) == <<luma(px), luma(px), luma(px)>>

(***************************************************************************)
(* HeadshotProcessor._validate_processing_params                           *)
(***************************************************************************)
required_keys ==
    {"target_width", "target_height", "padding_top_ratio", "padding_bottom_ratio",
     "padding_side_ratio", "border_color", "zoom_out_factor", "shift_x", "shift_y"}

ZoomMin == <<1, 2>>

ZoomMax == <<3, 1>>

\* Mutant: the zoom range of ProcessingParameters.validate, 0.9 to 3.0.
validate_processing_params_narrow(params) ==
    IF \E key \in required_keys : key \notin DOMAIN params THEN "missing"
    ELSE IF params.target_width <= 0 \/ params.target_height <= 0 THEN "dimensions"
    ELSE IF ~(RatLeq(<<9, 10>>, params.zoom_out_factor)
              /\ RatLeq(params.zoom_out_factor, ZoomMax)) THEN "zoom"
    ELSE "ok"

\* "ok", or which ValidationError is raised.
validate_processing_params(params) ==
    IF \E key \in required_keys : key \notin DOMAIN params THEN "missing"
    ELSE IF params.target_width <= 0 \/ params.target_height <= 0 THEN "dimensions"
    ELSE IF ~(RatLeq(ZoomMin, params.zoom_out_factor)
              /\ RatLeq(params.zoom_out_factor, ZoomMax)) THEN "zoom"
    ELSE "ok"

(***************************************************************************)
(* ProcessingParameters (models/session_state.py)                          *)
(***************************************************************************)
ParamZoomMin == <<9, 10>>

ParamZoomMax == <<3, 1>>

PaddingMin == <<0, 1>>

PaddingMax == <<2, 1>>

PaddingInRange(r) == RatLeq(PaddingMin, r) /\ RatLeq(r, PaddingMax)

\* The dataclass with its default field values.
DefaultParameters ==
    [target_width |-> 400, target_height |-> 500, padding_top |-> <<1, 5>>,
     padding_bottom |-> <<1, 2>>, padding_side |-> <<1, 10>>,
     border_color |-> "#000000", shift_x |-> 0, shift_y |-> 0,
     zoom_out_factor |-> <<11, 10>>, grayscale |-> FALSE]

\* Mutant: the padding ratios are not checked.
ProcessingParameters_validate_nopadding(self) ==
    IF self.target_width <= 0 \/ self.target_height <= 0 THEN "dimensions"
    ELSE IF self.zoom_out_factor = None THEN "TypeError"
    ELSE IF ~(RatLeq(ParamZoomMin, self.zoom_out_factor)
              /\ RatLeq(self.zoom_out_factor, ParamZoomMax)) THEN "zoom"
    ELSE "ok"

\* ProcessingParameters.validate: "ok", or which ValidationError is raised;
\* "TypeError" when line 66 compares a zoom_out_factor of None with 0.9.
ProcessingParameters_validate(self) ==
    IF self.target_width <= 0 \/ self.target_height <= 0 THEN "dimensions"
    ELSE IF self.zoom_out_factor = None THEN "TypeError"
    ELSE IF ~(RatLeq(ParamZoomMin, self.zoom_out_factor)
              /\ RatLeq(self.zoom_out_factor, ParamZoomMax)) THEN "zoom"
    ELSE IF ~(\A r \in {self.padding_top, self.padding_bottom, self.padding_side} :
                 PaddingInRange(r)) THEN "padding"
    ELSE "ok"

\* Mutant: the dictionary keeps the attribute names of the paddings.
to_dict_attribute_names(self) == self

\* ProcessingParameters.to_dict
to_dict(self) ==
    [target_width |-> self.target_width, target_height |-> self.target_height,
     padding_top_ratio |-> self.padding_top, padding_bottom_ratio |-> self.padding_bottom,
     padding_side_ratio |-> self.padding_side, border_color |-> self.border_color,
     shift_x |-> self.shift_x, shift_y |-> self.shift_y,
     zoom_out_factor |-> self.zoom_out_factor, grayscale |-> self.grayscale]

\* ProcessingParameters.from_config: config.get(key, default) for each field.
from_config(config) ==
    [k \in DOMAIN DefaultParameters |->
        IF k \in DOMAIN config THEN config[k] ELSE DefaultParameters[k]]

(***************************************************************************)
(* SessionState (models/session_state.py)                                  *)
(***************************************************************************)
\* SessionState(): the dataclass with its default field values.
NewSession ==
    [processing_params |-> DefaultParameters, selected_preset |-> "Default",
     custom_params |-> None, show_instructions |-> FALSE, last_error |-> None]

\* SessionState.update_processing_params: setattr for the keys the object has.
update_processing_params(self, kwargs) ==
    [self EXCEPT !.processing_params =
        [k \in DOMAIN self.processing_params |->
            IF k \in DOMAIN kwargs THEN kwargs[k] ELSE self.processing_params[k]]]

\* Mutant: only ValidationError is caught, other exceptions escape.
apply_preset_uncaught(self, preset_config) ==
    LET built == from_config(preset_config)
        v     == ProcessingParameters_validate(built)
    IN  [self |-> [self EXCEPT !.processing_params = built],
         raises |-> IF v = "ok" THEN "none"
                    ELSE IF v = "TypeError" THEN "TypeError" ELSE "ValidationError"]

\* Mutant: the built parameters are validated before they are assigned.
apply_preset_validate_first(self, preset_config) ==
    LET built == from_config(preset_config)
        v     == ProcessingParameters_validate(built)
    IN  [self |-> IF v = "ok" THEN [self EXCEPT !.processing_params = built] ELSE self,
         raises |-> IF v = "ok" THEN "none" ELSE "ValidationError"]

\* SessionState.apply_preset: line 115 assigns, line 116 validates, and
\* lines 118-123 turn every exception into ValidationError.
apply_preset(self, preset_config) ==
    LET built == from_config(preset_config)
        v     == ProcessingParameters_validate(built)
    IN  [self |-> [self EXCEPT !.processing_params = built],
         raises |-> IF v = "ok" THEN "none" ELSE "ValidationError"]

\* SessionState.set_preset: leaving "Custom" stores a copy of the current
\* processing_params as custom_params.
set_preset(self, preset_name) ==
    LET saved == IF self.selected_preset = "Custom" /\ preset_name # "Custom"
                 THEN [self EXCEPT !.custom_params = self.processing_params]
                 ELSE self
    IN  [saved EXCEPT !.selected_preset = preset_name]

\* SessionState.apply_custom_preset
apply_custom_preset(self) ==
    IF self.custom_params # None
    THEN [self EXCEPT !.processing_params = self.custom_params]
    ELSE self

\* SessionState.toggle_instructions
toggle_instructions(self) ==
    [self EXCEPT !.show_instructions = ~self.show_instructions]

\* SessionState.set_error
set_error(self, error_message) == [self EXCEPT !.last_error = error_message]

\* SessionState.clear_error
clear_error(self) == [self EXCEPT !.last_error = None]

\* Mutant: the error message is kept.
reset_to_defaults_keeps_error(self) ==
    [self EXCEPT !.processing_params = DefaultParameters, !.selected_preset = "Default"]

\* SessionState.reset_to_defaults
reset_to_defaults(self) ==
    clear_error([self EXCEPT !.processing_params = DefaultParameters,
                             !.selected_preset = "Default"])

\* SessionState.get_processing_dict
get_processing_dict(self) == to_dict(self.processing_params)

(***************************************************************************)
(* ImageData                                                               *)
(***************************************************************************)
EmptyDict == [k \in {} |-> None]

\* "ok", or the ValidationError of validate_for_processing.
validate_for_processing(d) ==
    IF d.original_image = None THEN "no image"
    ELSE IF d.original_dimensions = None THEN "no dimensions"
    ELSE "ok"

\* ImageData.set_processed_image; datetime.now() is the token "now".
set_processed_image(d, processed_image, params) ==
    [d EXCEPT !.processed_image = processed_image,
              !.processed_dimensions = processed_image,
              !.processing_params = params,
              !.processing_time = "now"]

(***************************************************************************)
(* Inputs of process_image                                                 *)
(***************************************************************************)
\* Smallest face the detector returns: DEFAULT_FACE_DETECTION_PARAMS["minSize"].
MinFaceSize == 30

\* Faces are MinFaceSize .. MinFaceSize + MaxFaceExtra pixels wide and high.
MaxFaceExtra == 1

\* A shift that pushes a crop box past the image border.
ShiftFar == 100

ImageSizes == {<<1, 3>>, <<9, 2>>, <<40, 40>>, <<100, 100>>}

\* Valid target sizes, and targets with a non-positive dimension.
TargetSizes == {<<4, 5>>, <<2, 2>>, <<5, 1>>, <<0, 5>>, <<4, -1>>}

\* zoom_out_factor: 0.25 and 3.25 are outside [0.5, 3.0].
Zooms == {<<1, 4>>, <<1, 2>>, <<3, 4>>, <<1, 1>>, <<3, 1>>, <<13, 4>>}

\* padding ratios: -1.0 and 2.25 are outside [0.0, 2.0].
PaddingTops == {<<-1, 1>>, <<0, 1>>, <<1, 4>>, <<9, 4>>}

PaddingBottoms == {<<0, 1>>, <<1, 2>>}

PaddingSides == {<<0, 1>>, <<1, 4>>}

ShiftsX == {-ShiftFar, 0, 1, ShiftFar}

ShiftsY == {0, ShiftFar}

BorderColor == "#000000"

CompleteParams ==
    [target_width : {t[1] : t \in TargetSizes},
     target_height : {t[2] : t \in TargetSizes},
     padding_top_ratio : PaddingTops,
     padding_bottom_ratio : PaddingBottoms,
     padding_side_ratio : PaddingSides,
     border_color : {BorderColor},
     zoom_out_factor : Zooms,
     shift_x : ShiftsX,
     shift_y : ShiftsY]

DefaultParams ==
    [target_width |-> 4, target_height |-> 5, padding_top_ratio |-> <<1, 4>>,
     padding_bottom_ratio |-> <<1, 2>>, padding_side_ratio |-> <<0, 1>>,
     border_color |-> BorderColor, zoom_out_factor |-> <<1, 1>>,
     shift_x |-> 0, shift_y |-> 0]

\* Dictionaries that lack one required key.
IncompleteParams ==
    { [k \in required_keys \ {missing} |-> DefaultParams[k]] : missing \in required_keys }

\* Dictionaries with the optional key "grayscale", as to_dict() builds them.
GrayscaleParams ==
    { [k \in required_keys \cup {"grayscale"} |->
          IF k = "grayscale" THEN g
          ELSE IF k = "target_width" THEN t[1]
          ELSE IF k = "target_height" THEN t[2]
          ELSE DefaultParams[k]] : g \in BOOLEAN, t \in {<<4, 5>>, <<2, 2>>} }

ParamDicts ==
    { p \in CompleteParams : <<p.target_width, p.target_height>> \in TargetSizes }
    \cup IncompleteParams
    \cup GrayscaleParams

\* Pixels of an RGB image: a colour, a dark colour, a grey.
SamplePixels == {<<255, 0, 0>>, <<12, 200, 34>>, <<128, 128, 128>>}

\* A freshly built ImageData holding an image of the given size.
FreshImageData(size) ==
    [original_image |-> size, original_dimensions |-> size,
     processed_image |-> None, processed_dimensions |-> None,
     processing_params |-> EmptyDict, processing_time |-> "None"]

\* An ImageData that holds the result of an earlier process_image call.
ProcessedImageData(size) ==
    [FreshImageData(size) EXCEPT !.processed_image = <<2, 2>>,
                                 !.processed_dimensions = <<2, 2>>,
                                 !.processing_params = DefaultParams,
                                 !.processing_time = "earlier"]

ImageDatas ==
    {FreshImageData(s) : s \in ImageSizes}
    \cup {ProcessedImageData(s) : s \in ImageSizes}
    \cup {FreshImageData(None),
          [FreshImageData(<<40, 40>>) EXCEPT !.original_dimensions = None]}

\* Face boxes the detector can return for an image: squares of at least
\* MinFaceSize pixels inside the image, at the borders and in the middle.
FaceBoxes(size) ==
    UNION { { <<x, y, s, s>> :
                x \in {0, (size[1] - s) \div 2, size[1] - s},
                y \in {0, (size[2] - s) \div 2, size[2] - s} } :
            s \in { n \in MinFaceSize .. MinFaceSize + MaxFaceExtra :
                      n <= size[1] /\ n <= size[2] } }

\* The face of a portrait, 200 wide and 250 high, and a square face of 106
\* pixels, in an image that holds them.
PortraitFaces(size) ==
    IF size[1] >= 600 /\ size[2] >= 550
    THEN {<<400, 300, 200, 250>>, <<400, 300, 106, 106>>}
    ELSE {}

\* Results of detectMultiScale with two faces, for an image that holds a
\* portrait face: the portrait face and another box, in either order.
TwoFaces(size) ==
    { <<f, g>> : f \in PortraitFaces(size), g \in FaceBoxes(size) }
    \cup { <<g, f>> : f \in PortraitFaces(size), g \in FaceBoxes(size) }

\* Results of detectMultiScale: no face, one face, or two faces.
Detections(size) ==
    {<<>>} \cup { <<f>> : f \in FaceBoxes(size) \cup PortraitFaces(size) }
    \cup TwoFaces(size)

NoCrop == [branch |-> "none", base |-> None, padding |-> None, raw |-> None, constrained |-> None,
           box |-> None]

NoCall == [op |-> "none", args |-> None]

(***************************************************************************)
(* HeadshotProcessor.process_image, step by step                           *)
(***************************************************************************)
Init ==
    /\ pc = "start"
    /\ image_data \in ImageDatas
    /\ processing_params \in ParamDicts
    /\ faces = <<>>
    /\ crop = NoCrop
    /\ cropped = None
    /\ padded = None
    /\ final_image = None
    /\ pixel = None
    /\ detector = "idle"
    /\ session = None
    /\ raised = "none"
    /\ entry_image_data = image_data
    /\ call = NoCall
    /\ ret = None

Raise(exc) ==
    /\ pc' = "raised"
    /\ raised' = exc

\* Line 81: image_data.validate_for_processing()
ValidateImageData ==
    /\ pc = "start"
    /\ IF validate_for_processing(image_data) = "ok"
       THEN pc' = "validate_params" /\ UNCHANGED raised
       ELSE Raise("ValidationError")
    /\ UNCHANGED <<detector, session, padded, pixel, image_data, processing_params, faces, crop, cropped, final_image,
                   entry_image_data, call, ret>>

\* Mutant: the parameters are recorded in image_data before they are checked.
ValidateParamsRecordsFirst ==
    /\ pc = "validate_params"
    /\ image_data' = [image_data EXCEPT !.processing_params = processing_params]
    /\ IF validate_processing_params(processing_params) = "ok"
       THEN pc' = "detect" /\ UNCHANGED raised
       ELSE Raise("ValidationError")
    /\ UNCHANGED <<detector, session, padded, pixel, processing_params, faces, crop, cropped, final_image,
                   entry_image_data, call, ret>>

\* Line 82: self._validate_processing_params(processing_params)
ValidateParams ==
    /\ pc = "validate_params"
    /\ IF validate_processing_params(processing_params) = "ok"
       THEN pc' = "detect" /\ UNCHANGED raised
       ELSE Raise("ValidationError")
    /\ UNCHANGED <<detector, session, padded, pixel, image_data, processing_params, faces, crop, cropped, final_image,
                   entry_image_data, call, ret>>

\* Mutant: _detect_faces lets the detector's exception through, and
\* process_image wraps it like any other exception.
DetectFacesUnwrapped ==
    /\ pc = "detect"
    /\ \/ \E found \in Detections(image_data.original_image) :
            /\ faces' = found
            /\ detector' = "ok"
            /\ pc' = "crop"
            /\ UNCHANGED raised
       \/ /\ Raise("ImageProcessingError")
          /\ detector' = "failed"
          /\ UNCHANGED faces
    /\ UNCHANGED <<session, padded, pixel, image_data, processing_params, crop, cropped,
                   final_image, entry_image_data, call, ret>>

\* Lines 100-109, 173-202: detectMultiScale returns boxes, or fails and
\* _detect_faces raises FaceDetectionError, which line 137 lets through.
DetectFaces ==
    /\ pc = "detect"
    /\ \/ \E found \in Detections(image_data.original_image) :
            /\ faces' = found
            /\ detector' = "ok"
            /\ pc' = "crop"
            /\ UNCHANGED raised
       \/ /\ Raise("FaceDetectionError")
          /\ detector' = "failed"
          /\ UNCHANGED faces
    /\ UNCHANGED <<session, padded, pixel, image_data, processing_params, crop, cropped,
                   final_image, entry_image_data, call, ret>>

target_size_of(params) == <<params.target_width, params.target_height>>

padding_ratios_of(params) ==
    [top |-> params.padding_top_ratio, bottom |-> params.padding_bottom_ratio,
     side |-> params.padding_side_ratio]

\* Lines 112-114 and 212-243: no face, the center crop.  An exception other
\* than the three of line 137 leaves process_image as ImageProcessingError.
CenterCrop ==
    /\ pc = "crop"
    /\ Len(faces) = 0
    /\ LET size == image_data.original_image
           p    == processing_params
           raw  == center_crop_raw(size, target_size_of(p), p.zoom_out_factor,
                                   p.shift_x, p.shift_y)
           box  == center_crop(size, target_size_of(p), p.zoom_out_factor,
                               p.shift_x, p.shift_y)
           img  == pil_crop(box)
       IN  /\ crop' = [branch |-> "center",
                       base |-> center_crop_base(size, target_size_of(p)),
                       padding |-> None, raw |-> raw, constrained |-> box, box |-> box]
           /\ IF img.raises = "none"
              THEN cropped' = img.size /\ pc' = "finalize" /\ UNCHANGED raised
              ELSE Raise("ImageProcessingError") /\ UNCHANGED cropped
    /\ UNCHANGED <<detector, session, padded, pixel, image_data, processing_params, faces, final_image,
                   entry_image_data, call, ret>>

\* Lines 115-121 and 245-296: the crop around the first detected face.
\* Mutant: the last box of the detection result is used.
primary_face_last(found) == found[Len(found)]

\* Line 117: face = faces[0]
primary_face(found) == found[1]

FaceCrop ==
    /\ pc = "crop"
    /\ Len(faces) > 0
    /\ LET size == image_data.original_image
           p    == processing_params
           face == primary_face(faces)
           raw  == face_crop_raw(face, padding_ratios_of(p), p.zoom_out_factor,
                                 p.shift_x, p.shift_y)
           con  == face_crop_constrained(size, face, padding_ratios_of(p),
                                         p.zoom_out_factor, p.shift_x, p.shift_y)
           box  == face_crop(size, face, padding_ratios_of(p), target_size_of(p),
                             p.zoom_out_factor, p.shift_x, p.shift_y)
       IN  /\ crop' = [branch |-> "face", base |-> None,
                       padding |-> face_paddings(face, padding_ratios_of(p)),
                       raw |-> raw, constrained |-> con, box |-> box]
           /\ IF box = None
              THEN Raise("ImageProcessingError") /\ UNCHANGED cropped
              ELSE LET img == pil_crop(box)
                   IN  IF img.raises = "none"
                       THEN cropped' = img.size /\ pc' = "finalize" /\ UNCHANGED raised
                       ELSE Raise("ImageProcessingError") /\ UNCHANGED cropped
    /\ UNCHANGED <<detector, session, padded, pixel, image_data, processing_params, faces, final_image,
                   entry_image_data, call, ret>>

\* Line 124: final_image = self._finalize_image(cropped, target_size, border_color)
\* thumbnail works on the object `cropped`; the pixels of the result are
\* resampled and not modelled: any one of them has one of SamplePixels.
Finalize ==
    /\ pc = "finalize"
    /\ \E out \in finalize_image(cropped, target_size_of(processing_params)) :
          /\ cropped' = out.cropped
          /\ padded' = out.padded
          /\ IF out.raises = "none"
             THEN /\ final_image' = out.size
                  /\ pixel' \in SamplePixels
                  /\ pc' = "store"
                  /\ UNCHANGED raised
             ELSE Raise("ImageProcessingError") /\ UNCHANGED <<final_image, pixel>>
    /\ UNCHANGED <<detector, session, image_data, processing_params, faces, crop,
                   entry_image_data, call, ret>>

\* Mutant: the flag is looked up under a key no dictionary has.
grayscale_of_greyscale(params) ==
    IF "greyscale" \in DOMAIN params THEN params.greyscale ELSE FALSE

\* Line 96: processing_params.get("grayscale", False)
grayscale_of(params) ==
    IF "grayscale" \in DOMAIN params THEN params.grayscale ELSE FALSE

\* Lines 126-135: the optional grayscale conversion (the converted image has
\* the size of final_image), image_data.set_processed_image(final_image,
\* processing_params) and return final_image.
Store ==
    /\ pc = "store"
    /\ pixel' = IF grayscale_of(processing_params)
                THEN convert_to_grayscale(pixel)
                ELSE pixel
    /\ image_data' = set_processed_image(image_data, final_image, processing_params)
    /\ pc' = "done"
    /\ ret' = final_image
    /\ UNCHANGED <<detector, session, padded, processing_params, faces, crop, cropped, final_image, raised,
                   entry_image_data, call>>

Next ==
    \/ ValidateImageData
    \/ ValidateParams
    \/ DetectFaces
    \/ CenterCrop
    \/ FaceCrop
    \/ Finalize
    \/ Store

Spec == Init /\ [][Next]_vars

(***************************************************************************)
(* process_image on a 1000x1000 photograph with the default parameters of  *)
(* ProcessingParameters (target 400x500, paddings 0.2 / 0.5 / 0.1, zoom    *)
(* 1.0 or 1.1) and small shifts.                                           *)
(***************************************************************************)
\* Shifts of the photograph runs: -MaxShift .. MaxShift.
MaxShift == 1

PhotoSize == <<1000, 1000>>

PhotoParams ==
    { [k \in required_keys \cup {"grayscale"} |->
          CASE k = "target_width" -> tw
            [] k = "target_height" -> 500
            [] k = "padding_top_ratio" -> <<1, 5>>
            [] k = "padding_bottom_ratio" -> <<1, 2>>
            [] k = "padding_side_ratio" -> <<1, 10>>
            [] k = "border_color" -> BorderColor
            [] k = "zoom_out_factor" -> z
            [] k = "shift_x" -> sx
            [] k = "shift_y" -> sy
            [] k = "grayscale" -> g] :
        tw \in {350, 400}, z \in {<<1, 1>>, <<11, 10>>}, sx \in -MaxShift .. MaxShift,
        sy \in -MaxShift .. MaxShift, g \in BOOLEAN }

InitPhoto ==
    /\ pc = "start"
    /\ image_data = FreshImageData(PhotoSize)
    /\ processing_params \in PhotoParams
    /\ faces = <<>>
    /\ crop = NoCrop
    /\ cropped = None
    /\ padded = None
    /\ final_image = None
    /\ pixel = None
    /\ detector = "idle"
    /\ session = None
    /\ raised = "none"
    /\ entry_image_data = image_data
    /\ call = NoCall
    /\ ret = None

SpecPhoto == InitPhoto /\ [][Next]_vars

(***************************************************************************)
(* Unit calls of the pure helpers, on inputs wider than the ones           *)
(* process_image produces.                                                 *)
(***************************************************************************)
\* Image width and height of a unit call of _constrain_crop_bounds: 1 .. MaxImg.
MaxImg == 3

\* Box coordinates of a unit call range from -MaxOff to the image size + MaxOff.
MaxOff == 2

\* Width and height of the cropped image of a unit call of _finalize_image.
MaxCropDim == 7

\* Target width and height of a unit call of _finalize_image.
MaxTarget == 4

Idle ==
    /\ image_data = FreshImageData(None)
    /\ processing_params = EmptyDict
    /\ faces = <<>>
    /\ crop = NoCrop
    /\ cropped = None
    /\ padded = None
    /\ final_image = None
    /\ pixel = None
    /\ detector = "idle"
    /\ session = None
    /\ raised = "none"
    /\ entry_image_data = image_data
    /\ ret = None

InitConstrain ==
    /\ Idle
    /\ pc = "call"
    /\ \E W \in 1 .. MaxImg, H \in 1 .. MaxImg :
          \E l \in -MaxOff .. W + MaxOff, r \in -MaxOff .. W + MaxOff,
             t \in -MaxOff .. H + MaxOff, b \in -MaxOff .. H + MaxOff :
                call = [op |-> "constrain_crop_bounds", args |-> <<l, t, r, b, W, H>>]

\* left, top, right, bottom = self._constrain_crop_bounds(...)
ConstrainCall ==
    /\ pc = "call"
    /\ call.op = "constrain_crop_bounds"
    /\ ret' = constrain_crop_bounds(call.args[1], call.args[2], call.args[3],
                                    call.args[4], call.args[5], call.args[6])
    /\ pc' = "returned"
    /\ UNCHANGED <<detector, session, padded, pixel, image_data, processing_params, faces, crop, cropped, final_image,
                   raised, entry_image_data, call>>

NextConstrain == ConstrainCall

SpecConstrain == InitConstrain /\ [][NextConstrain]_vars

InitFinalize ==
    /\ Idle
    /\ pc = "call"
    /\ \E w \in 0 .. MaxCropDim, h \in 0 .. MaxCropDim,
          x \in 1 .. MaxTarget, y \in 1 .. MaxTarget :
             call = [op |-> "finalize_image", args |-> <<<<w, h>>, <<x, y>>>>]

\* final_img = self._finalize_image(cropped, target_size, border_color),
\* called on its own: an exception is not wrapped.
FinalizeCall ==
    /\ pc = "call"
    /\ call.op = "finalize_image"
    /\ \E out \in finalize_image(call.args[1], call.args[2]) :
          /\ cropped' = out.cropped
          /\ padded' = out.padded
          /\ IF out.raises = "none"
             THEN ret' = out.size /\ pc' = "returned" /\ UNCHANGED raised
             ELSE Raise(out.raises) /\ UNCHANGED ret
    /\ UNCHANGED <<detector, session, pixel, image_data, processing_params, faces, crop, final_image,
                   entry_image_data, call>>

NextFinalize == FinalizeCall

SpecFinalize == InitFinalize /\ [][NextFinalize]_vars

\* Largest value of a channel of an RGB image.
MaxChannel == 255

\* Channel values of the pixels a unit call of _convert_to_grayscale converts.
Channels == {0, 1, 100, 254, 255}

\* Number of times _convert_to_grayscale is applied in a row.
MaxConversions == 2

InitGrayscale ==
    /\ Idle
    /\ pc = "call"
    /\ \E px \in (Channels \X Channels \X Channels)
                   \cup { <<v, v, v>> : v \in 0 .. MaxChannel } :
          call = [op |-> "convert_to_grayscale", args |-> <<px>>]

\* image = self._convert_to_grayscale(image): on the argument first, then on
\* the image the call before returned; ret lists the images returned.
GrayscaleCall ==
    /\ pc \in {"call", "returned"}
    /\ call.op = "convert_to_grayscale"
    /\ Len(ret) < MaxConversions
    /\ LET image == IF ret = <<>> THEN call.args[1] ELSE ret[Len(ret)]
       IN  ret' = Append(ret, convert_to_grayscale(image))
    /\ pc' = "returned"
    /\ UNCHANGED <<detector, session, padded, pixel, image_data, processing_params, faces, crop, cropped,
                   final_image, raised, entry_image_data, call>>

NextGrayscale == GrayscaleCall

SpecGrayscale == InitGrayscale /\ [][NextGrayscale]_vars

(***************************************************************************)
(* Unit calls of the two parameter validations.  processing_params is the  *)
(* dictionary, or the ProcessingParameters object, the call works on;      *)
(* call.args[1] is what it was before the call.  When the call raises, ret *)
(* is what the ValidationError reports.                                    *)
(***************************************************************************)
\* Dictionaries for _validate_processing_params: all keys or one key
\* missing, values inside and outside the ranges.
ValidateDicts ==
    LET full == { [DefaultParams EXCEPT !.target_width = tw, !.target_height = th,
                                        !.zoom_out_factor = z,
                                        !.padding_top_ratio = pt] :
                    tw \in {0, 4}, th \in {-1, 5}, z \in Zooms, pt \in PaddingTops }
    IN  full \cup { [k \in required_keys \ {missing} |-> d[k]] :
                       d \in full, missing \in required_keys }

\* ProcessingParameters objects, fields inside and outside the ranges.
ParameterObjects ==
    { [DefaultParameters EXCEPT !.target_width = tw, !.target_height = th,
                                !.zoom_out_factor = z, !.padding_top = pt,
                                !.padding_bottom = pb, !.padding_side = ps] :
        tw \in {0, 400}, th \in {-1, 500},
        z \in {<<1, 2>>, <<9, 10>>, <<11, 10>>, <<3, 1>>, <<13, 4>>},
        pt \in {<<-1, 10>>, <<0, 1>>, <<1, 5>>, <<2, 1>>, <<3, 1>>},
        pb \in {<<1, 2>>, <<9, 4>>}, ps \in {<<-1, 1>>, <<1, 10>>} }

InitValidate ==
    /\ pc = "call"
    /\ \/ /\ processing_params \in ValidateDicts
          /\ call = [op |-> "validate_processing_params", args |-> <<processing_params>>]
       \/ /\ processing_params \in ParameterObjects
          /\ call = [op |-> "ProcessingParameters.validate",
                     args |-> <<processing_params>>]
    /\ image_data = FreshImageData(None)
    /\ faces = <<>>
    /\ crop = NoCrop
    /\ cropped = None
    /\ padded = None
    /\ final_image = None
    /\ pixel = None
    /\ detector = "idle"
    /\ session = None
    /\ raised = "none"
    /\ entry_image_data = image_data
    /\ ret = None

\* self._validate_processing_params(params)
ValidateParamsCall ==
    /\ pc = "call"
    /\ call.op = "validate_processing_params"
    /\ LET v == validate_processing_params(processing_params)
       IN  IF v = "ok"
           THEN pc' = "returned" /\ UNCHANGED <<raised, ret>>
           ELSE Raise("ValidationError") /\ ret' = v
    /\ UNCHANGED <<detector, session, padded, pixel, image_data, processing_params, faces, crop, cropped,
                   final_image, entry_image_data, call>>

\* params.validate()
ParametersValidateCall ==
    /\ pc = "call"
    /\ call.op = "ProcessingParameters.validate"
    /\ LET v == ProcessingParameters_validate(processing_params)
       IN  IF v = "ok"
           THEN pc' = "returned" /\ UNCHANGED <<raised, ret>>
           ELSE Raise("ValidationError") /\ ret' = v
    /\ UNCHANGED <<detector, session, padded, pixel, image_data, processing_params, faces, crop, cropped,
                   final_image, entry_image_data, call>>

NextValidate == ValidateParamsCall \/ ParametersValidateCall

SpecValidate == InitValidate /\ [][NextValidate]_vars

(***************************************************************************)
(* The session: SessionState methods and the handlers of ui/app.py         *)
(***************************************************************************)
PresetNames == {"Default", "LinkedIn", "Custom"}

\* The parameters of src/test_presets.py, lines 47-57.
TestParams ==
    [target_width |-> 500, target_height |-> 600, padding_top |-> <<2, 5>>,
     padding_bottom |-> <<3, 10>>, padding_side |-> <<1, 5>>,
     border_color |-> "#FF0000", shift_x |-> 10, shift_y |-> -5,
     zoom_out_factor |-> <<3, 2>>]

\* Preset sections of a configuration file: complete, partial, with
\* a value outside its range and with a zoom_out_factor left empty (None).
PresetConfigs ==
    {TestParams,
     [target_width |-> 350, target_height |-> 450, padding_top |-> <<1, 4>>,
      border_color |-> "#CCCCCC"],
     [target_width |-> -100],
     [zoom_out_factor |-> <<1, 2>>],
     [zoom_out_factor |-> None]}

\* The sections get_preset_config returns to _handle_preset_change.
HandledConfigs ==
    {[target_width |-> 350, target_height |-> 450, padding_top |-> <<1, 4>>,
      border_color |-> "#CCCCCC"],
     [target_width |-> -100]}

\* Keyword arguments of update_processing_params; "quality" is no field.
UpdateKwargs == {[target_width |-> 350, quality |-> 95]}

\* Values the sidebar returns: all ten fields.
SidebarValues ==
    {DefaultParameters,
     [DefaultParameters EXCEPT !.grayscale = TRUE],
     from_config(TestParams)}

\* Mutant: the grayscale checkbox is not compared.
has_parameter_changes_nograyscale(current_params, session_state) ==
    \E k \in DOMAIN DefaultParameters \ {"grayscale"} :
        current_params[k] # session_state.processing_params[k]

\* Sidebar.has_parameter_changes: one of the ten fields differs.
has_parameter_changes(current_params, session_state) ==
    \E k \in DOMAIN DefaultParameters :
        current_params[k] # session_state.processing_params[k]

\* HeadshotApp._handle_parameter_changes: the session afterwards, and whether
\* _process_current_image is called.
handle_parameter_changes(app_state, current_params, has_image) ==
    IF has_parameter_changes(current_params, app_state)
    THEN LET updated == update_processing_params(app_state, current_params)
             named   == IF updated.selected_preset = "Custom" THEN updated
                        ELSE set_preset(updated, "Custom")
         IN  [self |-> [named EXCEPT !.custom_params = from_config(current_params)],
              reprocessed |-> has_image]
    ELSE [self |-> app_state, reprocessed |-> FALSE]

\* HeadshotApp._handle_preset_change, preset_config being the section of the
\* preset: the session afterwards, what st.error shows, and whether
\* _process_current_image is called.
handle_preset_change(app_state, selected_preset, preset_config, has_image) ==
    LET named   == set_preset(app_state, selected_preset)
        custom  == apply_custom_preset(named)
        applied == IF selected_preset = "Custom"
                   THEN IF custom.custom_params = None
                        THEN apply_preset(custom, preset_config)
                        ELSE [self |-> custom, raises |-> "none"]
                   ELSE apply_preset(named, preset_config)
    IN  [self |-> applied.self, shown |-> applied.raises,
         reprocessed |-> applied.raises = "none" /\ has_image]

InitSession ==
    /\ pc = "session"
    /\ session = NewSession
    /\ call = NoCall
    /\ image_data = FreshImageData(<<40, 40>>)
    /\ entry_image_data = image_data
    /\ processing_params = EmptyDict
    /\ faces = <<>>
    /\ crop = NoCrop
    /\ cropped = None
    /\ padded = None
    /\ final_image = None
    /\ pixel = None
    /\ detector = "idle"
    /\ raised = "none"
    /\ ret = None

\* What no call on the session changes.
SessionFrame ==
    <<pc, detector, padded, pixel, image_data, processing_params, faces, crop, cropped,
      final_image, entry_image_data>>

\* `call` keeps the method last called on the session, its arguments and
\* the session before the call.
UpdateProcessingParams ==
    /\ pc = "session"
    /\ \E kwargs \in UpdateKwargs :
        /\ call' = [op |-> "update_processing_params", args |-> kwargs, before |-> session]
        /\ session' = update_processing_params(session, kwargs)
    /\ raised' = "none"
    /\ ret' = None
    /\ UNCHANGED SessionFrame

ApplyPreset ==
    /\ pc = "session"
    /\ \E preset_config \in PresetConfigs :
        LET out == apply_preset(session, preset_config)
        IN  /\ call' = [op |-> "apply_preset", args |-> preset_config, before |-> session]
            /\ session' = out.self
            /\ raised' = out.raises
    /\ ret' = None
    /\ UNCHANGED SessionFrame

SetPreset ==
    /\ pc = "session"
    /\ \E preset_name \in PresetNames :
        /\ call' = [op |-> "set_preset", args |-> preset_name, before |-> session]
        /\ session' = set_preset(session, preset_name)
    /\ raised' = "none"
    /\ ret' = None
    /\ UNCHANGED SessionFrame

ApplyCustomPreset ==
    /\ pc = "session"
    /\ call' = [op |-> "apply_custom_preset", args |-> None, before |-> session]
    /\ session' = apply_custom_preset(session)
    /\ raised' = "none"
    /\ ret' = None
    /\ UNCHANGED SessionFrame

\* src/test_presets.py, line 60: session_state.custom_params = from_config(...)
AssignCustomParams ==
    /\ pc = "session"
    /\ session.selected_preset = "Custom"
    /\ call' = [op |-> "custom_params =", args |-> TestParams, before |-> session]
    /\ session' = [session EXCEPT !.custom_params = from_config(TestParams)]
    /\ raised' = "none"
    /\ ret' = None
    /\ UNCHANGED SessionFrame

ToggleInstructions ==
    /\ pc = "session"
    /\ call' = [op |-> "toggle_instructions", args |-> None, before |-> session]
    /\ session' = toggle_instructions(session)
    /\ raised' = "none"
    /\ ret' = None
    /\ UNCHANGED SessionFrame

SetError ==
    /\ pc = "session"
    /\ call' = [op |-> "set_error", args |-> "Some error", before |-> session]
    /\ session' = set_error(session, "Some error")
    /\ raised' = "none"
    /\ ret' = None
    /\ UNCHANGED SessionFrame

ResetToDefaults ==
    /\ pc = "session"
    /\ call' = [op |-> "reset_to_defaults", args |-> None, before |-> session]
    /\ session' = reset_to_defaults(session)
    /\ raised' = "none"
    /\ ret' = None
    /\ UNCHANGED SessionFrame

\* get_processing_dict reads the session: `call` stays the last call that
\* could change it.
GetProcessingDict ==
    /\ pc = "session"
    /\ call # NoCall
    /\ ret' = get_processing_dict(session)
    /\ UNCHANGED <<session, call, raised>>
    /\ UNCHANGED SessionFrame

HandleParameterChanges ==
    /\ pc = "session"
    /\ \E current_params \in SidebarValues :
        LET out == handle_parameter_changes(session, current_params,
                                            image_data.original_image # None)
        IN  /\ call' = [op |-> "_handle_parameter_changes", args |-> current_params,
                        before |-> session]
            /\ session' = out.self
            /\ ret' = [reprocessed |-> out.reprocessed]
    /\ raised' = "none"
    /\ UNCHANGED SessionFrame

HandlePresetChange ==
    /\ pc = "session"
    /\ \E selected_preset \in PresetNames \ {session.selected_preset},
          preset_config \in HandledConfigs :
        LET out == handle_preset_change(session, selected_preset, preset_config,
                                        image_data.original_image # None)
        IN  /\ call' = [op |-> "_handle_preset_change",
                        args |-> <<selected_preset, preset_config>>, before |-> session]
            /\ session' = out.self
            /\ ret' = [reprocessed |-> out.reprocessed, shown |-> out.shown]
    /\ raised' = "none"
    /\ UNCHANGED SessionFrame

NextSession ==
    \/ UpdateProcessingParams
    \/ ApplyPreset
    \/ SetPreset
    \/ ApplyCustomPreset
    \/ AssignCustomParams
    \/ ToggleInstructions
    \/ SetError
    \/ ResetToDefaults
    \/ GetProcessingDict
    \/ HandleParameterChanges
    \/ HandlePresetChange

SpecSession == InitSession /\ [][NextSession]_vars

(***************************************************************************)
(* StreamlitCaptcha (captcha.py); `session` is st.session_state            *)
(***************************************************************************)
\* StreamlitCaptcha(max_attempts=2)
max_attempts == 2

\* Puzzles random.randint and random.choice can draw: <<num1, operator, num2>>.
Puzzles == {<<2, "+", 3>>, <<7, "-", 4>>, <<0, "*", 9>>}

\* operators[operator](num1, num2)
captcha_answer_of(puzzle) ==
    CASE puzzle[2] = "+" -> puzzle[1] + puzzle[3]
      [] puzzle[2] = "-" -> puzzle[1] - puzzle[3]
      [] puzzle[2] = "*" -> puzzle[1] * puzzle[3]

ButtonAssignments == {"submit", "cancel"}

\* Texts typed into the answer field: nothing, letters ("abc"), digits that
\* int() rejects ("5+", "--5"), and numbers.
UserAnswers ==
    {[kind |-> "empty", value |-> 0], [kind |-> "letters", value |-> 0],
     [kind |-> "bad_int", value |-> 0]}
    \cup {[kind |-> "int", value |-> n] : n \in {-1, 0, 3, 5}}

\* st.session_state[key] = value
SetKey(state, key, value) ==
    [k \in DOMAIN state \cup {key} |-> IF k = key THEN value ELSE state[k]]

\* _generate_captcha, with the puzzle and the button assignment it draws.
generate_captcha(state, puzzle, assignment) ==
    SetKey(SetKey(SetKey(state, "captcha_question", puzzle),
                  "captcha_answer", captcha_answer_of(puzzle)),
           "button_assignment", assignment)

\* _is_correct_button_clicked
is_correct_button_clicked(state, button1_clicked, button2_clicked) ==
    LET submit_is_button1 == state.button_assignment = "submit"
    IN  (button1_clicked /\ submit_is_button1) \/ (button2_clicked /\ ~submit_is_button1)

\* Mutant: a failed attempt always counts and draws a new puzzle.
handle_failed_attempt_unlimited(state, puzzle, assignment) ==
    generate_captcha(SetKey(state, "captcha_attempts", state.captcha_attempts + 1),
                     puzzle, assignment)

\* _handle_failed_attempt
handle_failed_attempt(state, puzzle, assignment) ==
    IF state.captcha_attempts < max_attempts
    THEN generate_captcha(SetKey(state, "captcha_attempts", state.captcha_attempts + 1),
                          puzzle, assignment)
    ELSE state

\* _clear_captcha_data: the four keys are deleted.
clear_captcha_data(state) ==
    [k \in DOMAIN state \ {"captcha_question", "captcha_answer", "captcha_attempts",
                           "button_assignment"} |-> state[k]]

\* _handle_captcha_submission
handle_captcha_submission(state, button1_clicked, button2_clicked, user_answer, puzzle, assignment) ==
    IF ~is_correct_button_clicked(state, button1_clicked, button2_clicked)
    THEN handle_failed_attempt(state, puzzle, assignment)
    ELSE IF user_answer.kind \in {"empty", "letters", "bad_int"}
    THEN handle_failed_attempt(state, puzzle, assignment)
    ELSE IF user_answer.value = state.captcha_answer
    THEN clear_captcha_data(SetKey(state, "captcha_verified", TRUE))
    ELSE handle_failed_attempt(state, puzzle, assignment)

\* display_captcha, lines 140-141: remaining_skips > 0
skip_offered(state) == max_attempts - state.captcha_attempts > 0

\* display_captcha, lines 143-148: the skip button was clicked.
skip_captcha(state, puzzle, assignment) ==
    generate_captcha(SetKey(state, "captcha_attempts", state.captcha_attempts + 1),
                     puzzle, assignment)

\* StreamlitCaptcha.reset
reset_captcha(state, puzzle, assignment) ==
    generate_captcha(SetKey(SetKey(state, "captcha_verified", FALSE), "captcha_attempts", 0),
                     puzzle, assignment)

\* StreamlitCaptcha(): _initialize_session_state
InitCaptcha ==
    /\ pc = "captcha"
    /\ \E puzzle \in Puzzles, assignment \in ButtonAssignments :
         session = generate_captcha([captcha_verified |-> FALSE, captcha_attempts |-> 0],
                                    puzzle, assignment)
    /\ call = NoCall
    /\ image_data = FreshImageData(None)
    /\ entry_image_data = image_data
    /\ processing_params = EmptyDict
    /\ faces = <<>>
    /\ crop = NoCrop
    /\ cropped = None
    /\ padded = None
    /\ final_image = None
    /\ pixel = None
    /\ detector = "idle"
    /\ raised = "none"
    /\ ret = None

\* The skip button of display_captcha, shown while skips remain.
SkipCaptcha ==
    /\ pc = "captcha"
    /\ ~session.captcha_verified
    /\ skip_offered(session)
    /\ \E puzzle \in Puzzles, assignment \in ButtonAssignments :
         session' = skip_captcha(session, puzzle, assignment)
    /\ call' = [op |-> "skip", args |-> None, before |-> session]
    /\ UNCHANGED <<raised, ret>>
    /\ UNCHANGED SessionFrame

\* One of the two form buttons of display_captcha was clicked.
SubmitCaptcha ==
    /\ pc = "captcha"
    /\ ~session.captcha_verified
    /\ \E button1_clicked \in BOOLEAN, user_answer \in UserAnswers,
          puzzle \in Puzzles, assignment \in ButtonAssignments :
         /\ session' = handle_captcha_submission(session, button1_clicked, ~button1_clicked,
                                                 user_answer, puzzle, assignment)
         /\ call' = [op |-> "submit", args |-> <<button1_clicked, user_answer>>,
                     before |-> session]
    /\ UNCHANGED <<raised, ret>>
    /\ UNCHANGED SessionFrame

ResetCaptcha ==
    /\ pc = "captcha"
    /\ \E puzzle \in Puzzles, assignment \in ButtonAssignments :
         session' = reset_captcha(session, puzzle, assignment)
    /\ call' = [op |-> "reset", args |-> None, before |-> session]
    /\ UNCHANGED <<raised, ret>>
    /\ UNCHANGED SessionFrame

NextCaptcha == SkipCaptcha \/ SubmitCaptcha \/ ResetCaptcha

SpecCaptcha == InitCaptcha /\ [][NextCaptcha]_vars

(***************************************************************************)
(* Properties                                                              *)
(***************************************************************************)
\* Largest shift_x increase compared in the shift property.
MaxDelta == 3

\* The parameter validation of the specification: the processor's checks
\* and every padding ratio within [0.0, 2.0].
PassesValidation(p) ==
    /\ validate_processing_params(p) = "ok"
    /\ PaddingInRange(p.padding_top_ratio)
    /\ PaddingInRange(p.padding_bottom_ratio)
    /\ PaddingInRange(p.padding_side_ratio)

BoxWidth(b) == b[3] - b[1]

BoxHeight(b) == b[4] - b[2]

\* 0 <= left < right <= width and 0 <= top < bottom <= height
StrictlyInBounds(b, width, height) ==
    /\ 0 <= b[1] /\ b[1] < b[3] /\ b[3] <= width
    /\ 0 <= b[2] /\ b[2] < b[4] /\ b[4] <= height

\* No edge correction of _constrain_crop_bounds applies to b.
NoEdgeCorrection(b, size) ==
    b[1] >= 0 /\ b[2] >= 0 /\ b[3] <= size[1] /\ b[4] <= size[2]

ShiftedBy(b, d) == <<b[1] + d, b[2], b[3] + d, b[4]>>

Degenerate(b) == b = None \/ BoxWidth(b) <= 0 \/ BoxHeight(b) <= 0

\* Width and height the aspect correction aims at for a constrained box b.
CorrectedSize(b, target_size) ==
    IF BoxWidth(b) * target_size[2] > target_size[1] * BoxHeight(b)
    THEN <<BoxWidth(b), Trunc(BoxWidth(b) * target_size[2], target_size[1])>>
    ELSE <<Trunc(BoxHeight(b) * target_size[1], target_size[2]), BoxHeight(b)>>

\* Neither max(0, ...) nor min(img, ...) of the aspect correction binds on b.
AspectUnclamped(b, size, target_size) ==
    /\ BoxHeight(b) > 0
    /\ LET c == CorrectedSize(b, target_size)
           left == b[1] - ((c[1] - BoxWidth(b)) \div 2)
           top  == b[2] - ((c[2] - BoxHeight(b)) \div 2)
       IN  /\ left >= 0 /\ left + c[1] <= size[1]
           /\ top >= 0 /\ top + c[2] <= size[2]

P == processing_params

ImageSize == image_data.original_image

\* C1: for every cropped image of width >= 1 and height >= 1, smaller or
\* larger than the target, and every target size with positive width and
\* height, _finalize_image returns an image of exactly the target size.
C1_FinalizeOutputSize ==
    (call.op = "finalize_image" /\ pc # "call"
        /\ call.args[1][1] >= 1 /\ call.args[1][2] >= 1)
    => (pc = "returned" /\ ret = call.args[2])

\* A crop wider than the target and lower than it was finalized.
C1_Witness ==
    /\ call.op = "finalize_image" /\ pc = "returned"
    /\ call.args[1][1] > call.args[2][1]
    /\ 1 <= call.args[1][2] /\ call.args[1][2] < call.args[2][2]
    /\ ret = call.args[2]

\* C2: for every image, every parameter set that passes validation, any
\* shift and no face or a face inside the image, the box handed to
\* image.crop satisfies 0 <= left < right <= W and 0 <= top < bottom <= H.
C2_CropInBounds ==
    (crop.branch # "none" /\ PassesValidation(P))
    => (crop.box # None /\ StrictlyInBounds(crop.box, ImageSize[1], ImageSize[2]))

\* C3: in the face branch, whenever the aspect-corrected width and height
\* fit in the image, the final crop has |width - height * tw / th| <= 1.
C3_AspectConverges ==
    (crop.branch = "face" /\ crop.box # None /\ PassesValidation(P)
        /\ CorrectedSize(crop.constrained, target_size_of(P))[1] <= ImageSize[1]
        /\ CorrectedSize(crop.constrained, target_size_of(P))[2] <= ImageSize[2])
    => Abs(BoxWidth(crop.box) * P.target_height - BoxHeight(crop.box) * P.target_width)
          <= P.target_height

\* C4: with parameters that do not pass validation (a missing key, a
\* non-positive target dimension, zoom outside the range, a padding ratio
\* negative or above 2.0) process_image raises a validation error before
\* any face detection or crop.
C4_InvalidParamsRejected ==
    (call.op = "none" /\ ~PassesValidation(P))
    => /\ pc \in {"start", "validate_params", "raised"}
       /\ pc = "raised" => raised = "ValidationError"
       /\ faces = <<>>
       /\ crop = NoCrop

\* C5: whenever process_image raises, the ImageData passed in is exactly as
\* it was on entry.
C5_RaiseLeavesImageData ==
    (call.op = "none" /\ pc = "raised") => image_data = entry_image_data

\* A processing error after face detection, on an ImageData that holds an
\* earlier result.
C5_Witness ==
    /\ call.op = "none" /\ pc = "raised" /\ raised = "ImageProcessingError"
    /\ crop.branch = "face"
    /\ image_data.processing_time = "earlier"
    /\ image_data.processed_image = <<2, 2>>

\* Image.thumbnail raises on an image of this size.
ThumbnailRaises(size, target_size) ==
    \E t \in thumbnail_size(size, target_size) : t.raises # "none"

\* C6: when no face is found for a valid image and valid parameters,
\* process_image raises nothing, returns an image of exactly the target
\* size and records it in image_data.  (Crops without pixels are left aside
\* unless Image.thumbnail itself raises on them: what resampling such a crop
\* does is left open by pil_resize.)
C6_NoFaceSucceeds ==
    (/\ crop.branch = "center"
     /\ PassesValidation(P)
     /\ \/ (cropped[1] > 0 /\ cropped[2] > 0)
        \/ ThumbnailRaises(cropped, target_size_of(P)))
    => /\ raised = "none"
       /\ pc = "done" =>
            /\ ret = target_size_of(P)
            /\ image_data.processed_image = ret
            /\ image_data.processed_dimensions = ret
            /\ image_data.processing_params = P

\* C7: a crop rectangle of width <= 0 or height <= 0 is reported as an
\* error; no such box is cropped or finalized and no output is stored.
C7_DegenerateCropIsError ==
    (crop.branch # "none" /\ PassesValidation(P) /\ Degenerate(crop.box))
    => /\ pc = "raised"
       /\ cropped = None
       /\ final_image = None
       /\ image_data = entry_image_data

\* C8 as stated: a center-crop box pushed entirely past the right edge is
\* pulled back until right = image_width, and when the box is wider than
\* the image the result is an error instead of a crop rectangle.
C8_WiderBoxIsError ==
    (crop.branch = "center" /\ PassesValidation(P) /\ crop.raw[1] >= ImageSize[1])
    => /\ crop.box[3] = ImageSize[1]
       /\ IF BoxWidth(crop.raw) <= ImageSize[1]
          THEN crop.box[1] = ImageSize[1] - BoxWidth(crop.raw)
          ELSE pc = "raised" /\ cropped = None

\* C8 amended: a center-crop box pushed entirely past the right edge is
\* pulled back until right = image_width; when the box is wider than the
\* image, left is clamped to 0 and the crop (0 .. image_width) is taken:
\* no error is raised for it.
C8_PulledBackOrClamped ==
    (crop.branch = "center" /\ crop.raw[1] >= ImageSize[1])
    => /\ crop.box[3] = ImageSize[1]
       /\ crop.box[1] = Max(0, ImageSize[1] - BoxWidth(crop.raw))
       /\ cropped # None
       /\ pc = "finalize" => cropped = <<BoxWidth(crop.box), BoxHeight(crop.box)>>

\* A box wider than the image, pushed past the right edge, became the
\* full-width crop.
C8_Witness ==
    /\ crop.branch = "center"
    /\ crop.raw[1] >= ImageSize[1]
    /\ BoxWidth(crop.raw) > ImageSize[1]
    /\ crop.box[1] = 0 /\ crop.box[3] = ImageSize[1]
    /\ pc = "done"

\* C9: a box with 0 < width <= image_width and 0 < height <= image_height,
\* at any position, is returned by _constrain_crop_bounds in bounds with the
\* same width and height; a box inside the image is returned unchanged; a
\* box exceeding the image on all four sides becomes (0, 0, W, H).
C9_ConstrainKeepsSize ==
    (call.op = "constrain_crop_bounds" /\ pc = "returned")
    => LET b == <<call.args[1], call.args[2], call.args[3], call.args[4]>>
           W == call.args[5]
           H == call.args[6]
       IN  /\ (0 < BoxWidth(b) /\ BoxWidth(b) <= W /\ 0 < BoxHeight(b) /\ BoxHeight(b) <= H)
              => /\ StrictlyInBounds(ret, W, H)
                 /\ BoxWidth(ret) = BoxWidth(b)
                 /\ BoxHeight(ret) = BoxHeight(b)
                 /\ NoEdgeCorrection(b, <<W, H>>) => ret = b
           /\ (b[1] < 0 /\ b[2] < 0 /\ b[3] > W /\ b[4] > H) => ret = <<0, 0, W, H>>

\* A box wholly to the right of and below the image was moved into it.
C9_Witness ==
    /\ call.op = "constrain_crop_bounds" /\ pc = "returned"
    /\ call.args[1] >= call.args[5] /\ call.args[2] >= call.args[6]
    /\ call.args[3] - call.args[1] = call.args[5]
    /\ call.args[4] > call.args[2]
    /\ ret[1] = 0 /\ ret[3] = call.args[5] /\ ret[4] = call.args[6]

\* C10: with no edge correction or clamping for shift_x and for shift_x + d
\* (d > 0), the final crop for shift_x + d is the final crop for shift_x
\* moved right by d: left and right grow by d, top and bottom are the same.
C10_ShiftMovesCrop ==
    /\ crop.branch = "center" =>
         \A d \in 1 .. MaxDelta :
            (/\ NoEdgeCorrection(crop.raw, ImageSize)
             /\ NoEdgeCorrection(
                   center_crop_raw(ImageSize, target_size_of(P), P.zoom_out_factor,
                                   P.shift_x + d, P.shift_y), ImageSize))
            => center_crop(ImageSize, target_size_of(P), P.zoom_out_factor,
                           P.shift_x + d, P.shift_y) = ShiftedBy(crop.box, d)
    /\ crop.branch = "face" =>
         \A d \in 1 .. MaxDelta :
            LET raw2 == face_crop_raw(faces[1], padding_ratios_of(P),
                                      P.zoom_out_factor, P.shift_x + d, P.shift_y)
            IN  (/\ NoEdgeCorrection(crop.raw, ImageSize)
                 /\ AspectUnclamped(crop.raw, ImageSize, target_size_of(P))
                 /\ NoEdgeCorrection(raw2, ImageSize)
                 /\ AspectUnclamped(raw2, ImageSize, target_size_of(P)))
                => face_crop(ImageSize, faces[1], padding_ratios_of(P),
                             target_size_of(P), P.zoom_out_factor,
                             P.shift_x + d, P.shift_y) = ShiftedBy(crop.box, d)

\* A face crop whose width was aspect-corrected, unclamped for shift_x and
\* shift_x + 1.
C10_Witness ==
    /\ crop.branch = "face"
    /\ P.shift_x = 1
    /\ NoEdgeCorrection(crop.raw, ImageSize)
    /\ AspectUnclamped(crop.raw, ImageSize, target_size_of(P))
    /\ crop.box[1] < crop.raw[1]
    /\ LET raw2 == face_crop_raw(faces[1], padding_ratios_of(P),
                                 P.zoom_out_factor, P.shift_x + 1, P.shift_y)
       IN  /\ NoEdgeCorrection(raw2, ImageSize)
           /\ AspectUnclamped(raw2, ImageSize, target_size_of(P))
           /\ face_crop(ImageSize, faces[1], padding_ratios_of(P), target_size_of(P),
                        P.zoom_out_factor, P.shift_x + 1, P.shift_y)
              = ShiftedBy(crop.box, 1)

\* The photograph of scenarios 1 and 2 with zero shifts.
PhotoCase(zoom) ==
    /\ ImageSize = PhotoSize
    /\ target_size_of(P) = <<400, 500>>
    /\ P.zoom_out_factor = zoom
    /\ P.shift_x = 0 /\ P.shift_y = 0

\* C11: for a 1000x1000 image without a face, target 400x500, zoom 1.0 and
\* zero shifts, the center-crop rectangle is (100, 0, 900, 1000), nothing is
\* raised and the finalized image is exactly 400x500.
C11_CenterCropScenario ==
    (crop.branch = "center" /\ PhotoCase(<<1, 1>>))
    => /\ crop.box = <<100, 0, 900, 1000>>
       /\ raised = "none"
       /\ pc \in {"store", "done"} => final_image = <<400, 500>>
       /\ pc = "done" => ret = <<400, 500>>

\* Scenario 1 ran to its end.
C11_Witness ==
    /\ crop.branch = "center" /\ PhotoCase(<<1, 1>>)
    /\ pc = "done"
    /\ crop.box = <<100, 0, 900, 1000>>
    /\ ret = <<400, 500>>

\* C12: for the face (400, 300, 200, 250) in a 1000x1000 image, paddings
\* 0.2 / 0.5 / 0.1, zoom 1.1, zero shifts and target 400x500: the paddings
\* are 50, 125 and 20 pixels; the box before edge correction is 264 wide and
\* 467 high with its centre within one pixel of (500, 425); edge correction
\* leaves it as it is; the final crop is inside the image and its width is
\* within one pixel of 0.8 times its height.
C12_FaceCropScenario ==
    (/\ crop.branch = "face" /\ PhotoCase(<<11, 10>>)
     /\ faces[1] = <<400, 300, 200, 250>>
     /\ padding_ratios_of(P) = [top |-> <<1, 5>>, bottom |-> <<1, 2>>, side |-> <<1, 10>>])
    => /\ crop.padding = <<50, 125, 20>>
       /\ BoxWidth(crop.raw) = 264 /\ BoxHeight(crop.raw) = 467
       /\ Abs(crop.raw[1] + crop.raw[3] - 2 * 500) <= 2
       /\ Abs(crop.raw[2] + crop.raw[4] - 2 * 425) <= 2
       /\ crop.constrained = crop.raw
       /\ crop.box # None
       /\ StrictlyInBounds(crop.box, 1000, 1000)
       /\ Abs(BoxWidth(crop.box) * 500 - BoxHeight(crop.box) * 400) <= 500

\* Scenario 2 ran to its end: the crop was widened from 264 to 373 pixels.
C12_Witness ==
    /\ crop.branch = "face" /\ PhotoCase(<<11, 10>>)
    /\ faces[1] = <<400, 300, 200, 250>>
    /\ crop.box = <<314, 192, 687, 659>>
    /\ pc = "done"

\* C13 as stated: in the center-crop branch the base crop dimensions are
\* min(image_width, round(image_height * tw / th)) and
\* min(image_height, round(image_width * th / tw)), rounded to nearest.
C13_BaseIsRounded ==
    (crop.branch = "center" /\ PassesValidation(P))
    => crop.base = <<Min(ImageSize[1], Round(ImageSize[2] * P.target_width,
                                              P.target_height)),
                     Min(ImageSize[2], Round(ImageSize[1] * P.target_height,
                                              P.target_width))>>

\* C13 amended: the base crop is the largest rectangle of the target ratio
\* that fits in the image with its fractional dimension cut down (int()
\* truncates): one dimension is the image's, the other is at most the
\* exact value height * tw / th (or width * th / tw) and at most one
\* pixel below it.
C13_BaseIsTruncated ==
    crop.branch = "center"
    => LET W  == ImageSize[1]
           H  == ImageSize[2]
           tw == P.target_width
           th == P.target_height
       IN  IF W * th >= H * tw
           THEN /\ crop.base[2] = H
                /\ crop.base[1] * th <= H * tw
                /\ H * tw <= (crop.base[1] + 1) * th
           ELSE /\ crop.base[1] = W
                /\ crop.base[2] * tw <= W * th
                /\ W * th <= (crop.base[2] + 1) * tw

\* A base crop whose exact width 2 * 4 / 5 = 1.6 was cut down to 1.
C13_Witness ==
    /\ crop.branch = "center"
    /\ ImageSize = <<9, 2>> /\ target_size_of(P) = <<4, 5>>
    /\ crop.base = <<1, 2>>

\* C14: in _finalize_image the padding adds (target - size) // 2 border
\* pixels per side in each dimension and the padded image has exactly
\* target_size for every crop size, so that the final resize changes no
\* dimension.
C14_PaddedIsTarget ==
    (call.op = "finalize_image" /\ pc = "returned"
        /\ call.args[1][1] >= 1 /\ call.args[1][2] >= 1)
    => /\ padded = <<cropped[1] + 2 * ((call.args[2][1] - cropped[1]) \div 2),
                     cropped[2] + 2 * ((call.args[2][2] - cropped[2]) \div 2)>>
       /\ padded = call.args[2]

\* C15: no core operation changes an image it receives: through
\* process_image the original image keeps its dimensions, and after
\* _finalize_image(cropped, target_size, border_color) the image passed as
\* cropped has the dimensions it had before the call.
C15_InputImagesUnchanged ==
    /\ image_data.original_image = entry_image_data.original_image
    /\ image_data.original_dimensions = entry_image_data.original_dimensions
    /\ (call.op = "finalize_image" /\ pc # "call") => cropped = call.args[1]

\* The parameters ask for the grayscale conversion.
GrayscaleRequested == "grayscale" \in DOMAIN P /\ P.grayscale = TRUE

\* C16: when process_image returns, with grayscale true every pixel of the
\* image returned has three channels with R = G = B and the image has the
\* target dimensions; with grayscale false or absent the finalized image
\* is returned as it is.
C16_GrayscaleOutput ==
    [][(pc = "store" /\ pc' = "done")
        => IF GrayscaleRequested
           THEN /\ Len(pixel') = 3
                /\ pixel'[1] = pixel'[2] /\ pixel'[2] = pixel'[3]
                /\ ret' = target_size_of(P)
           ELSE /\ pixel' = pixel
                /\ ret' = final_image]_vars

\* A red pixel of the finalized image was returned as the grey of
\* luminance 76.
C16_Witness ==
    /\ pc = "done"
    /\ GrayscaleRequested
    /\ pixel = <<76, 76, 76>>
    /\ ret = target_size_of(P)

IsGrey(px) == px[1] = px[2] /\ px[2] = px[3]

\* C17: _convert_to_grayscale returns a 3-channel image with R = G = B
\* unchanged, so that applying it twice (or more) to any image gives what
\* applying it once gives.
C17_GrayscaleIdempotent ==
    (call.op = "convert_to_grayscale" /\ pc = "returned")
    => /\ IsGrey(call.args[1]) => ret[1] = call.args[1]
       /\ \A i \in 1 .. Len(ret) : ret[i] = ret[1]

\* A coloured pixel was converted twice.
C17_Witness ==
    /\ call.op = "convert_to_grayscale" /\ pc = "returned"
    /\ ~IsGrey(call.args[1])
    /\ Len(ret) = 2
    /\ ret[2] = ret[1]

HasAllKeys(d) == \A key \in required_keys : key \in DOMAIN d

ZoomInProcessorRange(z) == RatLeq(<<1, 2>>, z) /\ RatLeq(z, <<3, 1>>)

\* C19: _validate_processing_params raises ValidationError whenever one of
\* the nine required keys is missing (and reports the missing key, whatever
\* the other values are), whenever a target dimension is <= 0 and whenever
\* zoom_out_factor is outside [0.5, 3.0]; with all keys, positive
\* dimensions, zoom within [0.5, 3.0] and paddings within [0.0, 2.0] it
\* raises nothing and leaves the dictionary as it was.
C19_ProcessorValidation ==
    (call.op = "validate_processing_params" /\ pc # "call")
    => LET d == call.args[1]
       IN  /\ processing_params = d
           /\ pc = "raised" => raised = "ValidationError"
           /\ ~HasAllKeys(d) => (pc = "raised" /\ ret = "missing")
           /\ (HasAllKeys(d) /\ (d.target_width <= 0 \/ d.target_height <= 0))
                 => pc = "raised"
           /\ (HasAllKeys(d) /\ ~ZoomInProcessorRange(d.zoom_out_factor))
                 => pc = "raised"
           /\ (/\ HasAllKeys(d)
               /\ d.target_width > 0 /\ d.target_height > 0
               /\ ZoomInProcessorRange(d.zoom_out_factor)
               /\ PaddingInRange(d.padding_top_ratio)
               /\ PaddingInRange(d.padding_bottom_ratio)
               /\ PaddingInRange(d.padding_side_ratio))
                 => (pc = "returned" /\ raised = "none")

\* A dictionary without shift_y and with a zoom factor out of range was
\* reported for the missing key.
C19_Witness ==
    /\ call.op = "validate_processing_params" /\ pc = "raised"
    /\ "shift_y" \notin DOMAIN call.args[1]
    /\ call.args[1].zoom_out_factor = <<13, 4>>
    /\ call.args[1].target_width = 0
    /\ ret = "missing"

\* C20: ProcessingParameters.validate raises ValidationError exactly when
\* target_width <= 0 or target_height <= 0, or zoom_out_factor is outside
\* [0.9, 3.0], or one of padding_top, padding_bottom, padding_side is
\* outside [0.0, 2.0]; otherwise it returns, and in both cases the
\* parameters are as they were.
C20_ParametersValidation ==
    (call.op = "ProcessingParameters.validate" /\ pc # "call")
    => LET self == call.args[1]
           invalid ==
               \/ self.target_width <= 0 \/ self.target_height <= 0
               \/ ~(RatLeq(<<9, 10>>, self.zoom_out_factor)
                     /\ RatLeq(self.zoom_out_factor, <<3, 1>>))
               \/ \E r \in {self.padding_top, self.padding_bottom, self.padding_side} :
                     ~(RatLeq(<<0, 1>>, r) /\ RatLeq(r, <<2, 1>>))
       IN  /\ processing_params = self
           /\ invalid <=> (pc = "raised" /\ raised = "ValidationError")
           /\ ~invalid <=> (pc = "returned" /\ raised = "none")

\* Parameters valid but for padding_side = -1.0 were rejected.
C20_Witness ==
    /\ call.op = "ProcessingParameters.validate" /\ pc = "raised"
    /\ call.args[1].target_width = 400 /\ call.args[1].target_height = 500
    /\ call.args[1].zoom_out_factor = <<9, 10>>
    /\ call.args[1].padding_top = <<2, 1>>
    /\ call.args[1].padding_bottom = <<1, 2>>
    /\ call.args[1].padding_side = <<-1, 1>>
    /\ ret = "padding"

\* C21: when the face detector itself fails, process_image raises
\* FaceDetectionError and computes no crop (zero faces found is no error: it
\* leads to the center crop); a validation failure leaves as
\* ValidationError; every exception raised after a successful detection
\* (by the crop or by the finalization) leaves as ImageProcessingError.
C21_ErrorKinds ==
    /\ detector = "failed"
         => /\ pc = "raised" /\ raised = "FaceDetectionError"
            /\ crop = NoCrop /\ cropped = None /\ final_image = None /\ ret = None
    /\ (pc = "raised" /\ detector = "idle") => raised = "ValidationError"
    /\ (pc = "raised" /\ detector = "ok") => raised = "ImageProcessingError"
    /\ (detector = "ok" /\ faces = <<>> /\ pc # "crop") => crop.branch = "center"

\* The detector failed on valid input with an earlier result in image_data.
C21_Witness ==
    /\ call.op = "none"
    /\ detector = "failed"
    /\ raised = "FaceDetectionError"
    /\ PassesValidation(P)
    /\ image_data.processing_time = "earlier"

\* C22: the crop rectangle of the face branch is the one computed from the
\* first box of the detection result, whatever boxes follow it: with the
\* photograph of scenario 2, the portrait face first gives (314, 192, 687,
\* 659) with or without a second box, and a second box that is the portrait
\* face changes nothing for the crop computed from another first box.
C22_FirstFaceOnly ==
    crop.branch = "face"
    => /\ crop.raw = face_crop_raw(faces[1], padding_ratios_of(P), P.zoom_out_factor,
                                   P.shift_x, P.shift_y)
       /\ crop.box = face_crop(ImageSize, faces[1], padding_ratios_of(P),
                               target_size_of(P), P.zoom_out_factor, P.shift_x, P.shift_y)
       /\ (PhotoCase(<<11, 10>>) /\ faces[1] = <<400, 300, 200, 250>>)
             => crop.box = <<314, 192, 687, 659>>
       /\ (PhotoCase(<<11, 10>>) /\ faces[1] = <<0, 0, 30, 30>>)
             => crop.box = <<0, 0, 44, 56>>

\* Two faces were found, the portrait face first, and the run completed.
C22_Witness ==
    /\ pc = "done"
    /\ Len(faces) = 2
    /\ faces[1] = <<400, 300, 200, 250>>
    /\ faces[2] # faces[1]
    /\ PhotoCase(<<11, 10>>)
    /\ crop.box = <<314, 192, 687, 659>>

\* The last call on the session, and the session before it.
Called(op) == call.op = op

Before == call.before

\* C23: custom parameters survive a switch away from the Custom preset and
\* back: set_preset(other preset) called while selected_preset is "Custom"
\* and custom_params holds C leaves custom_params holding C, and
\* apply_custom_preset() makes processing_params equal to the custom_params
\* it finds.
C23_CustomParamsSurvive ==
    /\ (/\ Called("set_preset") /\ call.args # "Custom"
        /\ Before.selected_preset = "Custom" /\ Before.custom_params # None)
       => session.custom_params = Before.custom_params
    /\ (Called("apply_custom_preset") /\ Before.custom_params # None)
       => /\ session.processing_params = Before.custom_params
          /\ session.custom_params = Before.custom_params

\* C24: after reset_to_defaults the processing_params are the defaults
\* (400x500, paddings 0.2 / 0.5 / 0.1, border "#000000", shifts 0, zoom 1.1,
\* grayscale false), selected_preset is "Default" and last_error is None;
\* custom_params and show_instructions are as before the call.
C24_ResetToDefaults ==
    Called("reset_to_defaults")
    => /\ session.processing_params =
            [target_width |-> 400, target_height |-> 500, padding_top |-> <<1, 5>>,
             padding_bottom |-> <<1, 2>>, padding_side |-> <<1, 10>>,
             border_color |-> "#000000", shift_x |-> 0, shift_y |-> 0,
             zoom_out_factor |-> <<11, 10>>, grayscale |-> FALSE]
       /\ session.selected_preset = "Default"
       /\ None = session.last_error
       /\ session.custom_params = Before.custom_params
       /\ session.show_instructions = Before.show_instructions

\* A session with everything changed was reset.
C24_Witness ==
    /\ Called("reset_to_defaults")
    /\ Before.processing_params.target_width = 500
    /\ Before.selected_preset = "Custom"
    /\ Before.last_error = "Some error"
    /\ Before.custom_params # None
    /\ Before.show_instructions
    /\ session.processing_params = DefaultParameters

\* C25: apply_preset(config) either makes the parameters built from config
\* (missing keys filled with the defaults) the session's processing_params,
\* these passing validate(), or raises ValidationError, the built
\* parameters failing validate(); nothing else is raised, and a config with
\* a non-positive target dimension raises.
C25_ApplyPresetOutcomes ==
    Called("apply_preset")
    => LET built == [k \in DOMAIN DefaultParameters |->
                        IF k \in DOMAIN call.args THEN call.args[k]
                        ELSE DefaultParameters[k]]
       IN  /\ raised \in {"none", "ValidationError"}
           /\ raised = "none"
                => /\ ProcessingParameters_validate(built) = "ok"
                   /\ session.processing_params = built
           /\ raised = "ValidationError" => ProcessingParameters_validate(built) # "ok"
           /\ (built.target_width <= 0 \/ built.target_height <= 0)
                => raised = "ValidationError"

\* A preset whose zoom_out_factor is None made validate() fail with a
\* TypeError, and a partial preset was applied with its gaps filled.
C25_Witness ==
    /\ Called("apply_preset")
    /\ call.args = [zoom_out_factor |-> None]
    /\ raised = "ValidationError"
    /\ Before.processing_params.target_width = 350
    /\ session.processing_params.target_width = 400

\* C27: every ProcessingParameters value that passes validate() gives a
\* dictionary to_dict() that _validate_processing_params accepts: the nine
\* required keys are present, the dimensions are positive and the zoom is
\* within [0.5, 3.0].
C27_ParametersStricter ==
    (Called("ProcessingParameters.validate") /\ pc = "returned")
    => LET d == to_dict(processing_params)
       IN  /\ validate_processing_params(d) = "ok"
           /\ \A key \in required_keys : key \in DOMAIN d
           /\ d.target_width > 0 /\ d.target_height > 0
           /\ RatLeq(<<1, 2>>, d.zoom_out_factor) /\ RatLeq(d.zoom_out_factor, <<3, 1>>)

\* Parameters with the smallest zoom validate() accepts were accepted.
C27_Witness ==
    /\ Called("ProcessingParameters.validate")
    /\ pc = "returned"
    /\ processing_params.zoom_out_factor = <<9, 10>>
    /\ processing_params.padding_top = <<2, 1>>

\* C28: when apply_preset(config) raises ValidationError the session's
\* processing_params hold the rejected values built from config, the other
\* fields are as before the call, and a later get_processing_dict() returns
\* the rejected values.
C28_NoRollback ==
    (Called("apply_preset") /\ raised = "ValidationError")
    => /\ session.processing_params = from_config(call.args)
       /\ ProcessingParameters_validate(session.processing_params) # "ok"
       /\ session.selected_preset = Before.selected_preset
       /\ session.custom_params = Before.custom_params
       /\ session.show_instructions = Before.show_instructions
       /\ session.last_error = Before.last_error
       /\ ret # None => ret = to_dict(from_config(call.args))

\* A preset of width -100 was rejected and get_processing_dict() was called.
C28_Witness ==
    /\ Called("apply_preset")
    /\ raised = "ValidationError"
    /\ Before.processing_params = DefaultParameters
    /\ session.processing_params.target_width = -100
    /\ ret # None
    /\ ret.target_width = -100

\* C29: when the sidebar values differ from the stored processing_params,
\* after _handle_parameter_changes selected_preset is "Custom" and both
\* processing_params and custom_params equal the sidebar values; when they
\* are equal the session is as before and the image is not reprocessed.
C29_ParameterChanges ==
    Called("_handle_parameter_changes")
    => IF call.args # Before.processing_params
       THEN /\ session.selected_preset = "Custom"
            /\ session.processing_params = call.args
            /\ session.custom_params = call.args
       ELSE /\ session = Before
            /\ "reprocessed" \in DOMAIN ret => ~ret.reprocessed

\* The grayscale box was ticked with the LinkedIn preset selected.
C29_Witness ==
    /\ Called("_handle_parameter_changes")
    /\ Before.selected_preset = "LinkedIn"
    /\ Before.processing_params = DefaultParameters
    /\ call.args = [DefaultParameters EXCEPT !.grayscale = TRUE]
    /\ session.selected_preset = "Custom"
    /\ session.custom_params = call.args

\* C26: aspect correction only grows the crop: the corrected rectangle
\* contains the edge-corrected rectangle, and one of the two dimensions is
\* left as it was.
C26_AspectOnlyGrows ==
    (crop.branch = "face" /\ crop.box # None)
    => LET c == crop.constrained
           b == crop.box
       IN  /\ b[1] <= c[1] /\ b[3] >= c[3]
           /\ b[2] <= c[2] /\ b[4] >= c[4]
           /\ BoxWidth(b) >= BoxWidth(c) /\ BoxHeight(b) >= BoxHeight(c)
           /\ BoxWidth(b) = BoxWidth(c) \/ BoxHeight(b) = BoxHeight(c)

\* The submission of `call` was not the correct answer on the Submit button.
FailedSubmission ==
    /\ Called("submit")
    /\ \/ call.args[1] # (Before.button_assignment = "submit")
       \/ call.args[2].kind # "int"
       \/ call.args[2].value # Before.captcha_answer

\* C30: captcha_attempts never exceeds max_attempts; a skip or a failed
\* submission adds one attempt while captcha_attempts < max_attempts and
\* nothing otherwise; once the limit is reached the skip button is gone and
\* failed submissions leave the counter, the puzzle and the button
\* assignment as they are, until a correct answer or reset().
C30_AttemptsBounded ==
    /\ ~session.captcha_verified
         => /\ session.captcha_attempts \in 0 .. max_attempts
            /\ session.captcha_answer = captcha_answer_of(session.captcha_question)
    /\ Called("skip")
         => /\ Before.captcha_attempts < max_attempts
            /\ session.captcha_attempts = Before.captcha_attempts + 1
    /\ FailedSubmission
         => /\ ~session.captcha_verified
            /\ IF Before.captcha_attempts < max_attempts
               THEN session.captcha_attempts = Before.captcha_attempts + 1
               ELSE session = Before
    /\ (Called("submit") /\ ~FailedSubmission)
         => session = [captcha_verified |-> TRUE]
    /\ Called("reset")
         => ~session.captcha_verified /\ session.captcha_attempts = 0

\* At the limit a wrong answer was submitted and nothing changed.
C30_Witness ==
    /\ FailedSubmission
    /\ call.args[2] = [kind |-> "int", value |-> -1]
    /\ Before.captcha_attempts = max_attempts
    /\ session.captcha_attempts = max_attempts
    /\ session.captcha_question = Before.captcha_question

====
